---- MODULE Spec2Model ----
(***************************************************************************)
(* Sokoban puzzle simulation (bevy-sokoban): the Playing-state systems of  *)
(* src/src/play_plugin.rs (pause_game, handle_input, reset_state,          *)
(* move_objects, load_next_level) and the level loader of src/src/main.rs  *)
(* (level_setup and the level layouts).                                    *)
(*                                                                         *)
(* One frame of the game is: BeginFrame (state transition and the frame's  *)
(* keyboard input), then the systems of the Update schedule in an order    *)
(* allowed by their .after() constraints, then ApplyDeferred, which        *)
(* applies the Commands the systems queued.  Commands (insert/remove of    *)
(* the Moving component, despawn, spawn, insert_resource) are deferred to  *)
(* the end of the schedule; writes through Res/ResMut/Query/EventWriter    *)
(* are immediate.  Time is counted in units of 50 ms.  Transforms          *)
(* (presentation) are not part of the model.                               *)
(*                                                                         *)
(* Spec is the game from level one; SpecAnyLevel the game from the start   *)
(* of any level; SpecLevelSetup the level loader alone, called by a        *)
(* startup system with any layout of a bounded family.                     *)
(***************************************************************************)
EXTENDS Integers, Sequences, FiniteSets, TLC

VARIABLES
    game_state,        \* State<GameState>
    next_state,        \* NextState<GameState>: "None" or the state requested
    level_state,       \* Res<LevelState>
    undo_stack,        \* Res<UndoStack>
    player,            \* the Player component with its entity, or NoPlayer
    moving,            \* the Moving components: entity -> [from, to]
    commands,          \* the Commands queued by each system in this frame
    undo_events,       \* UndoEvents not yet read by reset_state
    next_level_events, \* NextLevelEvents not yet read by load_next_level
    keyboard_input,    \* Res<Input<KeyCode>> of this frame
    in_update,         \* TRUE between BeginFrame and ApplyDeferred
    ran,               \* the systems that have run in this frame
    panicked,          \* "" or the panic message the program aborted with
    level_setup_args,  \* the arguments of a level_setup call about to be
                       \* made by a startup system, or NoArgs
    scan               \* the Connectivity Scan the loader is running, or
                       \* NoScan

vars == <<game_state, next_state, level_state, undo_stack, player, moving,
          commands, undo_events, next_level_events, keyboard_input,
          in_update, ran, panicked, level_setup_args, scan>>

----------------------------------------------------------------------------
\* Bounds of the model.

\* Directional keys are offered only while the UndoStack is shorter than this.
MaxUndo == 3

\* The largest number of keys held in one frame.
MaxKeys == 2

\* The longest frame, in units of 50 ms; the shortest takes no time at all
\* (the first frame, or two frames at the same instant).
MaxRawDelta == 7

----------------------------------------------------------------------------
\* Program constants.

\* Timer::from_seconds(0.3, TimerMode::Once), in units of 50 ms.
MoveDuration == 6

\* Time<Virtual>::max_delta of the engine (250 ms by default, not changed by
\* the program): time.delta() in Update never exceeds it.
MaxDelta == 5

\* Timer::reset / a new Timer: nothing elapsed, not finished.
TimerReset == [elapsed |-> 0, finished |-> FALSE]

\* No entity carries the Player component (after every entity is despawned).
NoPlayer ==
    [entity |-> <<0, 0, 0>>, exists |-> FALSE, is_moving |-> FALSE,
     move_timer |-> TimerReset]

----------------------------------------------------------------------------
\* Position and maps keyed by Position (HashMap<Position, V>).

Position(x, y) == <<x, y>>

add(self, x, y) == Position(self[1] + x, self[2] + y)

EmptyMap == [p \in {} |-> 0]

contains_key(m, k) == k \in DOMAIN m

remove(m, k) == [p \in (DOMAIN m) \ {k} |-> m[p]]

insert(m, k, v) == [p \in (DOMAIN m) \cup {k} |-> IF p = k THEN v ELSE m[p]]

----------------------------------------------------------------------------
\* Level layouts (row index = y, column index = x; TLA+ sequences start at 1).

level_one ==
    << <<8, 8, 8, 8, 8, 8>>,
       <<8, 4, 0, 2, 1, 8>>,
       <<8, 8, 8, 0, 0, 8>>,
       <<0, 0, 8, 8, 8, 8>> >>

\* level_two with a gap in its bottom wall, at column 6.
level_two_open_wall ==
    << <<8, 8, 8, 0, 8, 8, 8, 8>>,
       <<8, 4, 8, 8, 8, 2, 1, 8>>,
       <<8, 2, 0, 0, 0, 0, 2, 8>>,
       <<8, 0, 0, 0, 2, 0, 0, 8>>,
       <<8, 8, 8, 8, 8, 8, 0, 8>> >>

level_two ==
    << <<8, 8, 8, 0, 8, 8, 8, 8>>,
       <<8, 4, 8, 8, 8, 2, 1, 8>>,
       <<8, 2, 0, 0, 0, 0, 2, 8>>,
       <<8, 0, 0, 0, 2, 0, 0, 8>>,
       <<8, 8, 8, 8, 8, 8, 8, 8>> >>

level_three ==
    << <<0, 8, 8, 8, 8, 8, 8, 8, 8, 8, 0>>,
       <<8, 8, 0, 0, 0, 0, 0, 0, 0, 8, 8>>,
       <<8, 4, 2, 2, 0, 0, 2, 0, 2, 1, 8>>,
       <<8, 2, 2, 0, 0, 0, 2, 2, 2, 2, 8>>,
       <<8, 0, 0, 0, 0, 0, 0, 0, 2, 2, 8>>,
       <<8, 2, 0, 0, 0, 0, 0, 0, 0, 0, 8>>,
       <<8, 8, 0, 0, 0, 0, 0, 0, 0, 8, 8>>,
       <<0, 8, 8, 8, 8, 8, 8, 8, 8, 8, 0>> >>

\* level_four is imported by play_plugin.rs but its layout is not in the
\* source tree: it is one of these layouts, whichever.  They are small
\* layouts with one player: two Blocks and two goals; no goal at all; no
\* Wall around the floor and two Blocks in a row.
level_four ==
    { << <<8, 8, 8, 8, 8, 8, 8>>,
         <<8, 4, 2, 1, 2, 4, 8>>,
         <<8, 8, 8, 8, 8, 8, 8>> >>,
      << <<8, 8, 8, 8>>,
         <<8, 1, 0, 8>>,
         <<8, 8, 8, 8>> >>,
      << <<0, 2, 1, 2, 2>>,
         <<0, 0, 0, 0, 0>> >> }

\* The cells of a layout, as Positions.
Cells(level_layout) ==
    UNION { { Position(col - 1, row - 1) : col \in 1..Len(level_layout[row]) }
            : row \in 1..Len(level_layout) }

\* The match of level_setup with the arms for 2 and 8 exchanged.
CodeAt_block_wall_swapped(level_layout, position) ==
    LET code == level_layout[position[2] + 1][position[1] + 1]
    IN  IF code = 2 THEN 8 ELSE IF code = 8 THEN 2 ELSE code

CodeAt(level_layout, position) ==
    level_layout[position[2] + 1][position[1] + 1]

\* Entity ids are opaque handles, unique per spawned object: the object
\* spawned by level_setup for level `level` at cell `position`.
EntityOf(level, position) == <<level, position[1], position[2]>>

\* TRUE when cell p is enumerated no later than cell q (rows, then columns).
RowMajorLeq(p, q) == p[2] < q[2] \/ (p[2] = q[2] /\ p[1] <= q[1])

\* level_setup with player_position.unwrap_or_default(): a layout without a
\* player cell is loaded with player_position (0, 0) and no Player entity.
level_setup_or_default(level, level_layout) ==
    LET cells == Cells(level_layout)
        ones  == { p \in cells : CodeAt(level_layout, p) = 1 }
        obst  == { p \in cells : CodeAt(level_layout, p) \in {2, 8} }
        goalc == { p \in cells : CodeAt(level_layout, p) = 4 }
        last1 == IF ones = {} THEN Position(0, 0)
                 ELSE CHOOSE p \in ones : \A q \in ones : RowMajorLeq(q, p)
        first1 == IF ones = {} THEN Position(0, 0)
                  ELSE CHOOSE p \in ones : \A q \in ones : RowMajorLeq(p, q)
    IN  [ok |-> TRUE,
         level_state |->
           [current_level |-> level,
            obstacles |->
               [p \in obst |->
                   <<EntityOf(level, p),
                     IF CodeAt(level_layout, p) = 2
                     THEN "Block" ELSE "Wall">>],
            goals |-> [p \in goalc |-> EntityOf(level, p)],
            player_position |-> last1],
         player |->
           [entity |-> EntityOf(level, first1), exists |-> ones # {},
            is_moving |-> FALSE,
            move_timer |-> TimerReset],
         undo_stack |-> <<>>]

\* level_setup: the LevelState, Player and UndoStack it inserts; `ok` is
\* FALSE when player_position.unwrap() panics (no cell with code 1).
level_setup(level, level_layout) ==
    LET cells == Cells(level_layout)
        ones  == { p \in cells : CodeAt(level_layout, p) = 1 }
        obst  == { p \in cells : CodeAt(level_layout, p) \in {2, 8} }
        goalc == { p \in cells : CodeAt(level_layout, p) = 4 }
        \* player_position is overwritten by every cell with code 1
        last1 == CHOOSE p \in ones : \A q \in ones : RowMajorLeq(q, p)
        \* the Player found by player_query.iter().next(): the first spawned
        first1 == CHOOSE p \in ones : \A q \in ones : RowMajorLeq(p, q)
    IN  IF ones = {} THEN [ok |-> FALSE]
        ELSE [ok |-> TRUE,
              level_state |->
                [current_level |-> level,
                 obstacles |->
                    [p \in obst |->
                        <<EntityOf(level, p),
                          IF CodeAt(level_layout, p) = 2
                          THEN "Block" ELSE "Wall">>],
                 goals |-> [p \in goalc |-> EntityOf(level, p)],
                 player_position |-> last1],
              player |->
                [entity |-> EntityOf(level, first1), exists |-> TRUE,
                 is_moving |-> FALSE,
                 move_timer |-> TimerReset],
              undo_stack |-> <<>>]

\* No call of level_setup is about to be made.
NoArgs == [level |-> 0, level_layout |-> <<>>]

\* No Connectivity Scan is running.
NoScan ==
    [active |-> FALSE, discipline |-> "none", free |-> FALSE,
     order |-> <<>>, to_visit |-> <<>>, visited |-> {}]

\* The layout registered for a level id in load_next_level.
Registered == {1, 2, 3, 4}

\* The layouts the call of level_one() ... level_four() may return.
LevelLayout(id) ==
    CASE id = 1 -> {level_one}
      [] id = 2 -> {level_two}
      [] id = 3 -> {level_three}
      [] id = 4 -> level_four

----------------------------------------------------------------------------
\* Time and the move timer.

Min(a, b) == IF a <= b THEN a ELSE b

\* time.delta() without the cap: the whole time the frame took.
delta_uncapped(raw) == raw

\* time.delta() for a frame that took `raw` units: capped at MaxDelta.
delta(raw) == Min(raw, MaxDelta)

\* Timer::tick that never finishes: the elapsed time stays below the
\* duration.
tick_never_finished(timer, d) ==
    [elapsed  |-> Min(timer.elapsed + d, MoveDuration - 1),
     finished |-> FALSE]

\* Timer::tick for a TimerMode::Once timer: a finished timer stays as it is,
\* else the elapsed time grows, capped at the duration.
tick(timer, d) ==
    IF timer.finished THEN timer
    ELSE [elapsed  |-> Min(timer.elapsed + d, MoveDuration),
          finished |-> timer.elapsed + d >= MoveDuration]

----------------------------------------------------------------------------
\* Keyboard input.  A key is in keyboard_input when the condition the
\* systems read holds in this frame: just_pressed for U, Space and E,
\* pressed for the four arrows.

DirectionKeys == {"Up", "Down", "Left", "Right"}

Keys == DirectionKeys \cup {"U", "Space", "E"}

KeySets(stack) ==
    { k \in SUBSET (IF Len(stack) < MaxUndo THEN Keys
                    ELSE Keys \ DirectionKeys) : Cardinality(k) <= MaxKeys }

None == <<0, 0>>

\* The chain with the vectors of Left and Right exchanged.
movement_mirrored(keys) ==
    IF "Up" \in keys THEN <<0, -1>>
    ELSE IF "Down" \in keys THEN <<0, 1>>
    ELSE IF "Left" \in keys THEN <<1, 0>>
    ELSE IF "Right" \in keys THEN <<-1, 0>>
    ELSE None

\* The movement chosen by handle_input's if / else-if chain.
movement(keys) ==
    IF "Up" \in keys THEN <<0, -1>>
    ELSE IF "Down" \in keys THEN <<0, 1>>
    ELSE IF "Left" \in keys THEN <<-1, 0>>
    ELSE IF "Right" \in keys THEN <<1, 0>>
    ELSE None

----------------------------------------------------------------------------
\* Commands.  Every command is a record of the same shape.

NoPos == <<-1, -1>>

InsertMoving(entity, from, to) ==
    [op |-> "insert", entity |-> entity, from |-> from, to |-> to,
     level |-> 0, layout |-> <<>>]

RemoveMoving(entity) ==
    [op |-> "remove", entity |-> entity, from |-> NoPos, to |-> NoPos,
     level |-> 0, layout |-> <<>>]

\* commands.entity(entity).despawn() for every entity of the query.
DespawnAll ==
    [op |-> "despawn_all", entity |-> <<0, 0, 0>>, from |-> NoPos,
     to |-> NoPos, level |-> 0, layout |-> <<>>]

\* The spawns and insert_resource calls queued by level_setup.
SetupLevel(level, level_layout) ==
    [op |-> "level_setup", entity |-> <<0, 0, 0>>, from |-> NoPos,
     to |-> NoPos, level |-> level, layout |-> level_layout]

NoCommands == [handle_input |-> <<>>, move_objects |-> <<>>,
               load_next_level |-> <<>>]

\* The state the commands act on.
World(ls, us, pl, mv) ==
    [level_state |-> ls, undo_stack |-> us, player |-> pl, moving |-> mv]

\* The commands of a level_setup that ends without
\* insert_resource(UndoStack(..)): the UndoStack resource stays.
ApplyCommand_keeps_undo_stack(w, c) ==
    CASE c.op = "insert" ->
            [w EXCEPT !.moving = insert(w.moving, c.entity,
                                        [from |-> c.from, to |-> c.to])]
      [] c.op = "remove" ->
            [w EXCEPT !.moving = remove(w.moving, c.entity)]
      [] c.op = "despawn_all" ->
            [w EXCEPT !.moving = EmptyMap, !.player = NoPlayer]
      [] c.op = "level_setup" ->
            LET s == level_setup(c.level, c.layout)
            IN  [w EXCEPT !.level_state = s.level_state,
                          !.player = s.player]

\* The effect of one command.
ApplyCommand(w, c) ==
    CASE c.op = "insert" ->
            [w EXCEPT !.moving = insert(w.moving, c.entity,
                                        [from |-> c.from, to |-> c.to])]
      [] c.op = "remove" ->
            [w EXCEPT !.moving = remove(w.moving, c.entity)]
      [] c.op = "despawn_all" ->
            [w EXCEPT !.moving = EmptyMap, !.player = NoPlayer]
      [] c.op = "level_setup" ->
            LET s == level_setup(c.level, c.layout)
            IN  [w EXCEPT !.level_state = s.level_state,
                          !.undo_stack = s.undo_stack,
                          !.player = s.player]

RECURSIVE ApplyCommands(_, _)
ApplyCommands(w, cs) ==
    IF cs = <<>> THEN w
    ELSE ApplyCommands(ApplyCommand(w, Head(cs)), Tail(cs))

----------------------------------------------------------------------------
\* handle_input.

\* resolve pushing a row of two Blocks: when the tile beyond the Block holds
\* a Block with free floor behind it, both get a Moving record.
resolve_pushes_row(ls, mv) ==
    LET move_to == add(ls.player_position, mv[1], mv[2])
        block_move_to == add(move_to, mv[1], mv[2])
        row_move_to == add(block_move_to, mv[1], mv[2])
    IN  IF contains_key(ls.obstacles, move_to)
        THEN IF ls.obstacles[move_to][2] = "Wall"
             THEN [accepted |-> FALSE, cmds |-> <<>>]
             ELSE IF contains_key(ls.obstacles, block_move_to)
                  THEN IF ls.obstacles[block_move_to][2] = "Block"
                          /\ ~contains_key(ls.obstacles, row_move_to)
                       THEN [accepted |-> TRUE,
                             cmds |->
                               <<InsertMoving(ls.obstacles[block_move_to][1],
                                              block_move_to, row_move_to),
                                 InsertMoving(ls.obstacles[move_to][1],
                                              move_to, block_move_to)>>]
                       ELSE [accepted |-> FALSE, cmds |-> <<>>]
                  ELSE [accepted |-> TRUE,
                        cmds |-> <<InsertMoving(ls.obstacles[move_to][1],
                                                move_to, block_move_to)>>]
        ELSE [accepted |-> TRUE, cmds |-> <<>>]

\* resolve taking a Wall for free floor: the player walks into it.
resolve_wall_as_floor(ls, mv) ==
    LET move_to == add(ls.player_position, mv[1], mv[2])
        block_move_to == add(move_to, mv[1], mv[2])
    IN  IF contains_key(ls.obstacles, move_to)
           /\ ls.obstacles[move_to][2] = "Block"
        THEN IF contains_key(ls.obstacles, block_move_to)
             THEN [accepted |-> FALSE, cmds |-> <<>>]
             ELSE [accepted |-> TRUE,
                   cmds |-> <<InsertMoving(ls.obstacles[move_to][1],
                                           move_to, block_move_to)>>]
        ELSE [accepted |-> TRUE, cmds |-> <<>>]

\* resolve without the contains_key(&block_move_to) test: a Block is pushed
\* whatever lies beyond it.
resolve_unchecked_push(ls, mv) ==
    LET move_to == add(ls.player_position, mv[1], mv[2])
        block_move_to == add(move_to, mv[1], mv[2])
    IN  IF contains_key(ls.obstacles, move_to)
        THEN IF ls.obstacles[move_to][2] = "Wall"
             THEN [accepted |-> FALSE, cmds |-> <<>>]
             ELSE [accepted |-> TRUE,
                   cmds |-> <<InsertMoving(ls.obstacles[move_to][1],
                                           move_to, block_move_to)>>]
        ELSE [accepted |-> TRUE, cmds |-> <<>>]

\* The match on level_state.obstacles.get(&move_to): whether the move is
\* accepted, and the Moving record queued for a pushed block.
resolve(ls, mv) ==
    LET move_to == add(ls.player_position, mv[1], mv[2])
        block_move_to == add(move_to, mv[1], mv[2])
    IN  IF contains_key(ls.obstacles, move_to)
        THEN IF ls.obstacles[move_to][2] = "Wall"
             THEN [accepted |-> FALSE, cmds |-> <<>>]
             ELSE IF contains_key(ls.obstacles, block_move_to)
                  THEN [accepted |-> FALSE, cmds |-> <<>>]
                  ELSE [accepted |-> TRUE,
                        cmds |-> <<InsertMoving(ls.obstacles[move_to][1],
                                                move_to, block_move_to)>>]
        ELSE [accepted |-> TRUE, cmds |-> <<>>]

\* handle_input looking at the arrows before the undo key.
handle_input_direction_first(ls, pl, keys) ==
    LET nothing == [undo |-> FALSE, is_moving |-> pl.is_moving, cmds |-> <<>>]
        mv == movement(keys)
        r  == resolve(ls, mv)
    IN  IF ~pl.exists THEN nothing
        ELSE IF pl.is_moving THEN nothing
        ELSE IF mv = None
        THEN IF "U" \in keys THEN [nothing EXCEPT !.undo = TRUE] ELSE nothing
        ELSE IF ~r.accepted THEN nothing
        ELSE [undo |-> FALSE, is_moving |-> TRUE,
              cmds |-> r.cmds \o
                       <<InsertMoving(pl.entity, ls.player_position,
                                      add(ls.player_position, mv[1], mv[2]))>>]

\* handle_input without the early return on player.is_moving.
handle_input_while_moving(ls, pl, keys) ==
    LET nothing == [undo |-> FALSE, is_moving |-> pl.is_moving, cmds |-> <<>>]
        mv == movement(keys)
        r  == resolve(ls, mv)
    IN  IF ~pl.exists THEN nothing
        ELSE IF "U" \in keys THEN [nothing EXCEPT !.undo = TRUE]
        ELSE IF mv = None THEN nothing
        ELSE IF ~r.accepted THEN nothing
        ELSE [undo |-> FALSE, is_moving |-> TRUE,
              cmds |-> r.cmds \o
                       <<InsertMoving(pl.entity, ls.player_position,
                                      add(ls.player_position, mv[1], mv[2]))>>]

\* handle_input with the undo key looked at before the early return on
\* is_moving: an undo is requested in the middle of a move.
handle_input_undo_while_moving(ls, pl, keys) ==
    LET nothing == [undo |-> FALSE, is_moving |-> pl.is_moving, cmds |-> <<>>]
        mv == movement(keys)
        r  == resolve(ls, mv)
    IN  IF ~pl.exists THEN nothing
        ELSE IF "U" \in keys THEN [nothing EXCEPT !.undo = TRUE]
        ELSE IF pl.is_moving THEN nothing
        ELSE IF mv = None THEN nothing
        ELSE IF ~r.accepted THEN nothing
        ELSE [undo |-> FALSE, is_moving |-> TRUE,
              cmds |-> r.cmds \o
                       <<InsertMoving(pl.entity, ls.player_position,
                                      add(ls.player_position, mv[1], mv[2]))>>]

\* What handle_input does for a LevelState, a Player and the keys of the
\* frame: whether an UndoEvent is sent, the new is_moving, the commands.
handle_input(ls, pl, keys) ==
    LET nothing == [undo |-> FALSE, is_moving |-> pl.is_moving, cmds |-> <<>>]
        mv == movement(keys)
        r  == resolve(ls, mv)
    IN  IF ~pl.exists THEN nothing
        ELSE IF pl.is_moving THEN nothing
        ELSE IF "U" \in keys THEN [nothing EXCEPT !.undo = TRUE]
        ELSE IF mv = None THEN nothing
        ELSE IF ~r.accepted THEN nothing
        ELSE [undo |-> FALSE, is_moving |-> TRUE,
              cmds |-> r.cmds \o
                       <<InsertMoving(pl.entity, ls.player_position,
                                      add(ls.player_position, mv[1], mv[2]))>>]

----------------------------------------------------------------------------
\* reset_state.

\* reset_state exchanging LevelState with the newest snapshot: the state it
\* leaves is pushed back, so that a second undo redoes the move.
reset_state_swaps(ls, us) ==
    IF us = <<>> THEN [level_state |-> ls, undo_stack |-> us]
    ELSE [level_state |-> us[Len(us)],
          undo_stack  |-> Append(SubSeq(us, 1, Len(us) - 1), ls)]

\* reset_state with pop().unwrap_or_default(): an empty stack restores
\* LevelState::default().
reset_state_or_default(ls, us) ==
    IF us = <<>>
    THEN [level_state |-> [current_level |-> 0, obstacles |-> EmptyMap,
                           goals |-> EmptyMap,
                           player_position |-> Position(0, 0)],
          undo_stack |-> us]
    ELSE [level_state |-> us[Len(us)],
          undo_stack  |-> SubSeq(us, 1, Len(us) - 1)]

\* reset_state restoring the oldest snapshot instead of the newest.
reset_state_oldest(ls, us) ==
    IF us = <<>> THEN [level_state |-> ls, undo_stack |-> us]
    ELSE [level_state |-> us[1], undo_stack |-> Tail(us)]

\* The LevelState and UndoStack after reset_state has read an UndoEvent.
reset_state(ls, us) ==
    IF us = <<>> THEN [level_state |-> ls, undo_stack |-> us]
    ELSE [level_state |-> us[Len(us)],
          undo_stack  |-> SubSeq(us, 1, Len(us) - 1)]

----------------------------------------------------------------------------
\* move_objects.

\* The loop body moving the player only: the obstacles entry of a pushed
\* Block stays where it was.
MoveOne_player_only(ls, entity, m, player_entity) ==
    IF entity = player_entity
    THEN [ls EXCEPT !.player_position = m.to] ELSE ls

\* The loop body of move_objects without the insert at moving.to: the
\* obstacle taken from moving.from is dropped.
MoveOne_drops_obstacle(ls, entity, m, player_entity) ==
    LET ls1 == IF entity = player_entity
               THEN [ls EXCEPT !.player_position = m.to] ELSE ls
    IN  IF contains_key(ls1.obstacles, m.from)
        THEN [ls1 EXCEPT !.obstacles = remove(ls1.obstacles, m.from)]
        ELSE ls1

\* The body of the commit loop for one entity with a Moving record.
MoveOne(ls, entity, m, player_entity) ==
    LET ls1 == IF entity = player_entity
               THEN [ls EXCEPT !.player_position = m.to] ELSE ls
    IN  IF contains_key(ls1.obstacles, m.from)
        THEN [ls1 EXCEPT !.obstacles =
                 insert(remove(ls1.obstacles, m.from), m.to,
                        ls1.obstacles[m.from])]
        ELSE ls1

\* The commit loop over moving_query, in the order the query yields.
RECURSIVE MoveAll(_, _, _, _)
MoveAll(ls, order, mvg, player_entity) ==
    IF order = <<>> THEN ls
    ELSE MoveAll(MoveOne(ls, Head(order), mvg[Head(order)], player_entity),
                 Tail(order), mvg, player_entity)

\* The snapshot taken after the loop instead of before it.
snapshot_after(before, after) == after

\* The snapshot move_objects pushes at a commit, given the LevelState before
\* and after the loop.
snapshot(before, after) == before

\* The win check asking for a goal without an obstacle on it.
has_won_negated(ls) ==
    \A goal_position \in DOMAIN ls.goals :
        ~contains_key(ls.obstacles, goal_position)

\* has_won that asks for a goal: not won when goals is empty.
has_won_some_goal(ls) ==
    /\ DOMAIN ls.goals # {}
    /\ \A goal_position \in DOMAIN ls.goals :
          contains_key(ls.obstacles, goal_position)

\* The win check.
has_won(ls) == \A goal_position \in DOMAIN ls.goals :
                  contains_key(ls.obstacles, goal_position)

\* The orders in which a query may yield the entities of a set.
Orders(S) ==
    { o \in [1..Cardinality(S) -> S] : \A i, j \in DOMAIN o :
                                          i # j => o[i] # o[j] }

RECURSIVE RemoveAll(_)
RemoveAll(order) ==
    IF order = <<>> THEN <<>>
    ELSE <<RemoveMoving(Head(order))>> \o RemoveAll(Tail(order))

\* move_objects applying the `to` positions on every tick of a move, not
\* only on the tick that completes the timer.
move_objects_eager(ls, us, pl, mvg, d, order) ==
    LET timer == tick(pl.move_timer, d)
        after == MoveAll(ls, order, mvg, pl.entity)
    IN  IF ~timer.finished
        THEN [player |-> [pl EXCEPT !.move_timer = timer],
              level_state |-> after, undo_stack |-> us, cmds |-> <<>>,
              events |-> <<>>]
        ELSE [player |-> [pl EXCEPT !.move_timer = TimerReset,
                                     !.is_moving = FALSE],
              level_state |-> after,
              undo_stack |-> Append(us, snapshot(ls, after)),
              cmds |-> RemoveAll(order),
              events |-> IF has_won(after)
                         THEN <<after.current_level + 1>> ELSE <<>>]

\* move_objects without move_timer.reset() at the commit.
move_objects_no_reset(ls, us, pl, mvg, d, order) ==
    LET timer == tick(pl.move_timer, d)
        after == MoveAll(ls, order, mvg, pl.entity)
    IN  IF ~timer.finished
        THEN [player |-> [pl EXCEPT !.move_timer = timer],
              level_state |-> ls, undo_stack |-> us, cmds |-> <<>>,
              events |-> <<>>]
        ELSE [player |-> [pl EXCEPT !.move_timer = timer,
                                     !.is_moving = FALSE],
              level_state |-> after,
              undo_stack |-> Append(us, snapshot(ls, after)),
              cmds |-> RemoveAll(order),
              events |-> IF has_won(after)
                         THEN <<after.current_level + 1>> ELSE <<>>]

\* What move_objects does for a Player that is moving, the frame's delta
\* `d` and the order `order` in which moving_query yields its entities.
move_objects(ls, us, pl, mvg, d, order) ==
    LET timer == tick(pl.move_timer, d)
        after == MoveAll(ls, order, mvg, pl.entity)
    IN  IF ~timer.finished
        THEN [player |-> [pl EXCEPT !.move_timer = timer],
              level_state |-> ls, undo_stack |-> us, cmds |-> <<>>,
              events |-> <<>>]
        ELSE [player |-> [pl EXCEPT !.move_timer = TimerReset,
                                     !.is_moving = FALSE],
              level_state |-> after,
              undo_stack |-> Append(us, snapshot(ls, after)),
              cmds |-> RemoveAll(order),
              events |-> IF has_won(after)
                         THEN <<after.current_level + 1>> ELSE <<>>]

----------------------------------------------------------------------------
\* The frame.

PlayingSystems == {"pause_game", "handle_input", "reset_state",
                   "move_objects", "load_next_level"}

SystemsOf(state) ==
    CASE state = "Playing" -> PlayingSystems
      [] state = "Paused" -> {"unpause_game"}
      [] state = "Editing" -> {}

\* The state in which level `level` has just been loaded from level_layout
\* and the game is Playing.
InitLevel(level, level_layout) ==
    LET s == level_setup(level, level_layout)
    IN  /\ s.ok
        /\ game_state = "Playing"
        /\ next_state = "None"
        /\ level_state = s.level_state
        /\ undo_stack = s.undo_stack
        /\ player = s.player
        /\ moving = EmptyMap
        /\ commands = NoCommands
        /\ undo_events = 0
        /\ next_level_events = <<>>
        /\ keyboard_input = {}
        /\ in_update = FALSE
        /\ ran = {}
        /\ panicked = ""
        /\ level_setup_args = NoArgs
        /\ scan = NoScan

\* setup_level_one: the program starts in level one.
Init == InitLevel(1, level_one)

\* The program at the start of any of its levels (load_next_level loads
\* them one after the other).
InitAnyLevel ==
    \E level \in Registered :
        \E level_layout \in LevelLayout(level) :
            InitLevel(level, level_layout)

\* The start of a frame: the keyboard state of the frame, and the state
\* transition requested in the frame before.  Entering Editing runs
\* remove_level, which despawns every entity.
BeginFrame ==
    /\ ~in_update
    /\ panicked = ""
    /\ \E keys \in KeySets(undo_stack) : keyboard_input' = keys
    /\ in_update' = TRUE
    /\ ran' = {}
    /\ IF next_state # "None"
       THEN /\ game_state' = next_state
            /\ next_state' = "None"
            /\ IF next_state = "Editing"
               THEN moving' = EmptyMap /\ player' = NoPlayer
               ELSE UNCHANGED <<moving, player>>
       ELSE UNCHANGED <<game_state, next_state, moving, player>>
    /\ UNCHANGED <<level_state, undo_stack, commands, undo_events,
                   next_level_events, panicked, level_setup_args, scan>>

\* A system of the Update schedule of `state` may run now.
CanRun(state, system, after) ==
    /\ in_update
    /\ panicked = ""
    /\ game_state = state
    /\ system \notin ran
    /\ after \subseteq ran

PauseGame ==
    /\ CanRun("Playing", "pause_game", {})
    /\ ran' = ran \cup {"pause_game"}
    /\ IF "Space" \in keyboard_input
       THEN /\ keyboard_input' = keyboard_input \ {"Space"}
            /\ next_state' = "Paused"
       ELSE IF "E" \in keyboard_input
       THEN /\ keyboard_input' = keyboard_input \ {"E"}
            /\ next_state' = "Editing"
       ELSE UNCHANGED <<keyboard_input, next_state>>
    /\ UNCHANGED <<game_state, level_state, undo_stack, player, moving,
                   commands, undo_events, next_level_events, in_update,
                   panicked, level_setup_args, scan>>

UnpauseGame ==
    /\ CanRun("Paused", "unpause_game", {})
    /\ ran' = ran \cup {"unpause_game"}
    /\ IF "Space" \in keyboard_input
       THEN /\ keyboard_input' = keyboard_input \ {"Space"}
            /\ next_state' = "Playing"
       ELSE UNCHANGED <<keyboard_input, next_state>>
    /\ UNCHANGED <<game_state, level_state, undo_stack, player, moving,
                   commands, undo_events, next_level_events, in_update,
                   panicked, level_setup_args, scan>>

HandleInput ==
    /\ CanRun("Playing", "handle_input", {"pause_game"})
    /\ ran' = ran \cup {"handle_input"}
    /\ LET r == handle_input(level_state, player, keyboard_input)
       IN  /\ player' = [player EXCEPT !.is_moving = r.is_moving]
           /\ commands' = [commands EXCEPT !.handle_input = r.cmds]
           /\ undo_events' = IF r.undo THEN undo_events + 1 ELSE undo_events
    /\ UNCHANGED <<game_state, next_state, level_state, undo_stack, moving,
                   next_level_events, keyboard_input, in_update, panicked,
                   level_setup_args, scan>>

ResetState ==
    /\ CanRun("Playing", "reset_state", {"handle_input"})
    /\ ran' = ran \cup {"reset_state"}
    /\ IF undo_events > 0
       THEN LET r == reset_state(level_state, undo_stack)
            IN  /\ undo_events' = undo_events - 1
                /\ level_state' = r.level_state
                /\ undo_stack' = r.undo_stack
       ELSE UNCHANGED <<undo_events, level_state, undo_stack>>
    /\ UNCHANGED <<game_state, next_state, player, moving, commands,
                   next_level_events, keyboard_input, in_update, panicked,
                   level_setup_args, scan>>

MoveObjects ==
    /\ CanRun("Playing", "move_objects", {"handle_input"})
    /\ ran' = ran \cup {"move_objects"}
    /\ IF ~player.exists \/ ~player.is_moving
       THEN UNCHANGED <<player, level_state, undo_stack, commands,
                        next_level_events>>
       ELSE \E raw \in 0..MaxRawDelta, order \in Orders(DOMAIN moving) :
               LET r == move_objects(level_state, undo_stack, player, moving,
                                     delta(raw), order)
               IN  /\ player' = r.player
                   /\ level_state' = r.level_state
                   /\ undo_stack' = r.undo_stack
                   /\ commands' = [commands EXCEPT !.move_objects = r.cmds]
                   /\ next_level_events' = next_level_events \o r.events
    /\ UNCHANGED <<game_state, next_state, moving, undo_events,
                   keyboard_input, in_update, panicked, level_setup_args, scan>>

\* load_next_level with `_ => return` for an id without a layout: the
\* despawns are queued, the event is dropped and the program goes on.
LoadNextLevel_skips_unknown ==
    /\ CanRun("Playing", "load_next_level", {"move_objects"})
    /\ ran' = ran \cup {"load_next_level"}
    /\ IF next_level_events = <<>>
       THEN UNCHANGED <<next_level_events, commands, panicked>>
       ELSE LET next_level == Head(next_level_events)
            IN  /\ next_level_events' = Tail(next_level_events)
                /\ IF next_level \notin Registered
                   THEN /\ commands' = [commands EXCEPT
                                           !.load_next_level = <<DespawnAll>>]
                        /\ UNCHANGED panicked
                   ELSE \E next_level_layout \in LevelLayout(next_level) :
                          /\ level_setup(next_level, next_level_layout).ok
                          /\ commands' =
                                [commands EXCEPT !.load_next_level =
                                    <<DespawnAll,
                                      SetupLevel(next_level,
                                                 next_level_layout)>>]
                          /\ UNCHANGED panicked
    /\ UNCHANGED <<game_state, next_state, level_state, undo_stack, player,
                   moving, undo_events, keyboard_input, in_update,
                   level_setup_args, scan>>

LoadNextLevel ==
    /\ CanRun("Playing", "load_next_level", {"move_objects"})
    /\ ran' = ran \cup {"load_next_level"}
    /\ IF next_level_events = <<>>
       THEN UNCHANGED <<next_level_events, commands, panicked>>
       ELSE LET next_level == Head(next_level_events)
            IN  /\ next_level_events' = Tail(next_level_events)
                /\ IF next_level \notin Registered
                   THEN /\ panicked' = "Level not found"
                        /\ commands' = [commands EXCEPT
                                           !.load_next_level = <<DespawnAll>>]
                   ELSE \E next_level_layout \in LevelLayout(next_level) :
                          IF ~level_setup(next_level, next_level_layout).ok
                          THEN /\ panicked' =
                                   "called Option::unwrap() on a None value"
                               /\ commands' =
                                   [commands EXCEPT !.load_next_level =
                                       <<DespawnAll>>]
                          ELSE /\ commands' =
                                   [commands EXCEPT !.load_next_level =
                                       <<DespawnAll,
                                         SetupLevel(next_level,
                                                    next_level_layout)>>]
                               /\ UNCHANGED panicked
    /\ UNCHANGED <<game_state, next_state, level_state, undo_stack, player,
                   moving, undo_events, keyboard_input, in_update,
                   level_setup_args, scan>>

\* The end of the Update schedule: the queued commands are applied, system
\* by system in the order of the schedule.
ApplyDeferred ==
    /\ in_update
    /\ panicked = ""
    /\ ran = SystemsOf(game_state)
    /\ LET w == ApplyCommands(
                    World(level_state, undo_stack, player, moving),
                    commands.handle_input \o commands.move_objects
                        \o commands.load_next_level)
       IN  /\ level_state' = w.level_state
           /\ undo_stack' = w.undo_stack
           /\ player' = w.player
           /\ moving' = w.moving
    /\ commands' = NoCommands
    /\ keyboard_input' = {}
    /\ in_update' = FALSE
    /\ ran' = {}
    /\ UNCHANGED <<game_state, next_state, undo_events, next_level_events,
                   panicked, level_setup_args, scan>>

Next ==
    \/ BeginFrame
    \/ PauseGame
    \/ UnpauseGame
    \/ HandleInput
    \/ ResetState
    \/ MoveObjects
    \/ LoadNextLevel
    \/ ApplyDeferred

Spec == Init /\ [][Next]_vars

\* move_objects in a frame that took time: the timer of the move in flight
\* advances, or the move is committed.
TimePasses == MoveObjects /\ player' # player

\* The frames keep coming: the engine runs its schedules for as long as the
\* program has not panicked; and the clock goes on: of the frames in which
\* a move is in flight, not all but finitely many take no time.
FairSpec == Spec /\ WF_vars(Next) /\ SF_vars(TimePasses)

\* The program from the start of any level.
SpecAnyLevel == InitAnyLevel /\ [][Next]_vars

----------------------------------------------------------------------------
\* The level loader on its own: a startup system that calls level_setup,
\* as setup_level_one does, with any level id and layout of a bounded family.

\* The codes of a cell: the five the loader knows, and 3 and 9 for the others.
Codes == {0, 1, 2, 3, 4, 8, 9}

\* The shapes <<rows, columns>> of the layouts.
LayoutShapes == {<<1, 1>>, <<1, 2>>, <<2, 1>>, <<2, 2>>, <<1, 3>>, <<3, 1>>}

\* The layouts of these shapes, and the layout without rows.
Layouts ==
    {<<>>} \cup
    UNION { [1..shape[1] -> [1..shape[2] -> Codes]] : shape \in LayoutShapes }

SetupLevels == {1, 2}

\* LevelState::default(), the resource PlayPlugin::build inserts.
LevelStateDefault ==
    [current_level |-> 0, obstacles |-> EmptyMap, goals |-> EmptyMap,
     player_position |-> Position(0, 0)]

\* The program before its startup system has run: the default resources,
\* no entity, and the call of level_setup to come.
InitLevelSetup ==
    /\ game_state = "Startup"
    /\ next_state = "None"
    /\ level_state = LevelStateDefault
    /\ undo_stack = <<>>
    /\ player = NoPlayer
    /\ moving = EmptyMap
    /\ commands = NoCommands
    /\ undo_events = 0
    /\ next_level_events = <<>>
    /\ keyboard_input = {}
    /\ in_update = FALSE
    /\ ran = {}
    /\ panicked = ""
    /\ level_setup_args \in [level : SetupLevels, level_layout : Layouts]
    /\ scan = NoScan

\* The startup system: it calls level_setup, which panics or queues the
\* spawns and the resources, and its commands are applied; start_playing
\* then asks for the Playing state.
LevelSetup ==
    /\ game_state = "Startup"
    /\ next_state = "None"
    /\ panicked = ""
    /\ level_setup_args # NoArgs
    /\ LET s == level_setup(level_setup_args.level,
                            level_setup_args.level_layout)
       IN  IF ~s.ok
           THEN /\ panicked' = "called Option::unwrap() on a None value"
                /\ UNCHANGED <<level_state, undo_stack, player, next_state,
                               level_setup_args>>
           ELSE /\ level_state' = s.level_state
                /\ undo_stack' = s.undo_stack
                /\ player' = s.player
                /\ next_state' = "Playing"
                /\ level_setup_args' = NoArgs
                /\ UNCHANGED panicked
    /\ UNCHANGED <<game_state, moving, commands, undo_events,
                   next_level_events, keyboard_input, in_update, ran, scan>>

SpecLevelSetup == InitLevelSetup /\ [][LevelSetup]_vars

\* The layouts of one row of the loader's family with one player cell and
\* no goal.
NoGoalLayouts ==
    { level_layout \in Layouts :
        /\ Len(level_layout) = 1
        /\ Cardinality({ p \in Cells(level_layout) :
                           CodeAt(level_layout, p) = 1 }) = 1
        /\ \A p \in Cells(level_layout) : CodeAt(level_layout, p) # 4 }

\* The game is Playing a level that level_setup has loaded from a layout
\* without a goal.
InitNoGoals ==
    \E level \in SetupLevels :
        \E level_layout \in NoGoalLayouts :
            InitLevel(level, level_layout)

SpecNoGoals == InitNoGoals /\ [][Next]_vars

----------------------------------------------------------------------------
\* The Connectivity Scan the loader runs after placement.  Its code is not
\* in the source tree (tiles.rs has spawn_floor, which makes the floor
\* visual of one Position); it is modelled as the specification describes
\* it: a breadth-first or depth-first traversal of the 4-connected neighbor
\* graph that starts at the player's Position and is given the obstacles
\* map.  A scan looks at the neighbors of every Position in one order of
\* the four directions, any of the twenty-four, or (on the smaller
\* layouts) in an order it changes at will from Position to Position.

\* The four directions, as (x, y) steps.
NeighborSteps == {<<0, -1>>, <<0, 1>>, <<-1, 0>>, <<1, 0>>}

\* The orders in which the four neighbors can be looked at.
NeighborOrders ==
    { order \in [1..4 -> NeighborSteps] :
        \A i, j \in 1..4 : i # j => order[i] # order[j] }

\* The neighbors of a Position in the given order.
neighbors(position, order) ==
    [i \in 1..4 |-> add(position, order[i][1], order[i][2])]

\* A neighbor is traversable if it holds no obstacle, or holds a Block.
traversable(obstacles, position) ==
    \/ ~contains_key(obstacles, position)
    \/ obstacles[position][2] = "Block"

\* The Positions of a sequence that are traversable and not visited, in
\* their order.
RECURSIVE SelectSeqOf(_, _, _)
SelectSeqOf(seq, obstacles, visited) ==
    IF seq = <<>> THEN <<>>
    ELSE LET rest == SelectSeqOf(Tail(seq), obstacles, visited)
         IN  IF traversable(obstacles, Head(seq)) /\ Head(seq) \notin visited
             THEN <<Head(seq)>> \o rest
             ELSE rest

\* A scan that follows only the first traversable neighbor of a Position.
visit_first_neighbor(sc, obstacles, order) ==
    LET position == Head(sc.to_visit)
        rest == Tail(sc.to_visit)
        found == SelectSeqOf(neighbors(position, order), obstacles,
                             sc.visited \cup {position})
        first == IF found = <<>> THEN <<>> ELSE <<Head(found)>>
    IN  IF position \in sc.visited
        THEN [sc EXCEPT !.to_visit = rest]
        ELSE [sc EXCEPT
                !.visited = @ \cup {position},
                !.to_visit = IF sc.discipline = "depth"
                             THEN first \o rest ELSE rest \o first]

\* One step of the traversal: the next Position is taken from to_visit; if
\* it has not been visited it joins the visited set and its traversable
\* neighbors that have not been visited are to be visited, before the
\* others (depth-first) or after them (breadth-first).
visit(sc, obstacles, order) ==
    LET position == Head(sc.to_visit)
        rest == Tail(sc.to_visit)
        found == SelectSeqOf(neighbors(position, order), obstacles,
                             sc.visited \cup {position})
    IN  IF position \in sc.visited
        THEN [sc EXCEPT !.to_visit = rest]
        ELSE [sc EXCEPT
                !.visited = @ \cup {position},
                !.to_visit = IF sc.discipline = "depth"
                             THEN found \o rest ELSE rest \o found]

\* The scan at its start.
scan_from(player_position, discipline, free, order) ==
    [active |-> TRUE, discipline |-> discipline, free |-> free,
     order |-> order, to_visit |-> <<player_position>>, visited |-> {}]

\* The layouts the scan is run on: the levels of the source.
ScanLayouts == {level_one, level_two, level_three}

\* The scans that may also change their order at every Position, as
\* <<layout, discipline>>: few enough runs to go through them all.
FreeOrderScans ==
    {<<level_one, "depth">>, <<level_one, "breadth">>,
     <<level_two, "breadth">>}

\* The obstacles map the loader has placed when it invokes the scan.
PlacedObstacles ==
    level_setup(level_setup_args.level,
                level_setup_args.level_layout).level_state.obstacles

\* The loader has placed the objects of a layout and invokes the scan.
InitConnectivityScan ==
    /\ game_state = "Startup"
    /\ next_state = "None"
    /\ level_state = LevelStateDefault
    /\ undo_stack = <<>>
    /\ player = NoPlayer
    /\ moving = EmptyMap
    /\ commands = NoCommands
    /\ undo_events = 0
    /\ next_level_events = <<>>
    /\ keyboard_input = {}
    /\ in_update = FALSE
    /\ ran = {}
    /\ panicked = ""
    /\ level_setup_args \in [level : {1}, level_layout : ScanLayouts]
    /\ \E discipline \in {"depth", "breadth"}, free \in BOOLEAN,
          order \in NeighborOrders :
          /\ free => <<level_setup_args.level_layout, discipline>>
                        \in FreeOrderScans
          /\ scan = scan_from(level_setup(level_setup_args.level,
                                          level_setup_args.level_layout)
                                 .level_state.player_position,
                              discipline, free, order)

\* One step of the traversal, for as long as a Position is to be visited.
ConnectivityScan ==
    /\ scan.active
    /\ scan.to_visit # <<>>
    /\ \E order \in IF scan.free THEN NeighborOrders ELSE {scan.order} :
          scan' = visit(scan, PlacedObstacles, order)
    /\ UNCHANGED <<game_state, next_state, level_state, undo_stack, player,
                   moving, commands, undo_events, next_level_events,
                   keyboard_input, in_update, ran, panicked,
                   level_setup_args>>

SpecConnectivityScan == InitConnectivityScan /\ [][ConnectivityScan]_vars

\* The traversal is a loop of the loader: it goes on while a Position is
\* to be visited.
FairConnectivityScan == SpecConnectivityScan /\ WF_vars(ConnectivityScan)

----------------------------------------------------------------------------
\* Vocabulary of the properties.

Directions == {<<0, -1>>, <<0, 1>>, <<-1, 0>>, <<1, 0>>}

\* The player is Idle.
Idle == player.exists /\ ~player.is_moving

\* The tile `position` holds a Wall / a Block / any obstacle in ls.
IsWall(ls, position) ==
    \E e \in {ls.obstacles[p][1] : p \in DOMAIN ls.obstacles} :
        position \in DOMAIN ls.obstacles
        /\ ls.obstacles[position] = <<e, "Wall">>

IsBlock(ls, position) ==
    \E e \in {ls.obstacles[p][1] : p \in DOMAIN ls.obstacles} :
        position \in DOMAIN ls.obstacles
        /\ ls.obstacles[position] = <<e, "Block">>

Occupied(ls, position) == IsWall(ls, position) \/ IsBlock(ls, position)

Towards(position, mv) == <<position[1] + mv[1], position[2] + mv[2]>>

\* A move in direction mv is illegal in ls: into a Wall, or into a Block
\* whose next tile holds an obstacle.
Illegal(ls, mv) ==
    LET dest == Towards(ls.player_position, mv)
    IN  \/ IsWall(ls, dest)
        \/ IsBlock(ls, dest) /\ Occupied(ls, Towards(dest, mv))

\* This step is a commit of move_objects: the step that pushes a snapshot.
CommitStep == MoveObjects /\ Len(undo_stack') = Len(undo_stack) + 1

\* handle_input has run in this frame and neither reset_state nor
\* move_objects has yet.
JustHandledInput == in_update /\ ran = {"pause_game", "handle_input"}

\* The LevelStates level_setup may build for the level of ls.
Loaded(ls) ==
    { level_setup(ls.current_level, level_layout).level_state :
        level_layout \in LevelLayout(ls.current_level) }

----------------------------------------------------------------------------
\* C1 (push legality).  When the player is Idle and the direction chosen by
\* handle_input leads into a Wall, or into a Block whose next tile holds an
\* obstacle, handle_input leaves LevelState unchanged, queues and attaches
\* no Moving record and leaves is_moving false.
C1_PushLegality ==
    [][ (HandleInput /\ Idle /\ movement(keyboard_input) # None
            /\ Illegal(level_state, movement(keyboard_input)))
        => /\ level_state' = level_state
           /\ commands'.handle_input = <<>>
           /\ moving' = moving
           /\ ~player'.is_moving ]_vars

\* A push of a Block against an obstacle has just been rejected.
C1_Witness ==
    /\ JustHandledInput
    /\ "U" \notin keyboard_input
    /\ movement(keyboard_input) # None
    /\ IsBlock(level_state,
               Towards(level_state.player_position, movement(keyboard_input)))
    /\ Illegal(level_state, movement(keyboard_input))
    /\ ~player.is_moving
    /\ commands.handle_input = <<>>
    /\ moving = EmptyMap

----------------------------------------------------------------------------
\* b is a after one legal move: the player has stepped to a neighbouring
\* tile, a Block on that tile has moved one tile further, nothing else
\* differs.
LegalMove(a, b) ==
    \E mv \in Directions :
        LET dest == Towards(a.player_position, mv)
            beyond == Towards(dest, mv)
        IN  /\ ~Illegal(a, mv)
            /\ b.player_position = dest
            /\ b.goals = a.goals
            /\ b.current_level = a.current_level
            /\ IF IsBlock(a, dest)
               THEN /\ DOMAIN b.obstacles =
                          ((DOMAIN a.obstacles) \ {dest}) \cup {beyond}
                    /\ b.obstacles[beyond] = a.obstacles[dest]
                    /\ \A p \in (DOMAIN a.obstacles) \ {dest} :
                          b.obstacles[p] = a.obstacles[p]
               ELSE b.obstacles = a.obstacles

\* n undos in a row, from LevelState ls and UndoStack us.
RECURSIVE UndoN(_, _, _)
UndoN(ls, us, n) ==
    IF n = 0 THEN [level_state |-> ls, undo_stack |-> us]
    ELSE LET r == reset_state(ls, us)
         IN  UndoN(r.level_state, r.undo_stack, n - 1)

\* C2 (undo is an exact inverse).  In every reachable state the UndoStack
\* followed by the current LevelState is the chain of LevelStates of the
\* committed moves not yet undone: it starts at the LevelState the level was
\* loaded with, each member is one legal move after the one before, and k
\* undos return LevelState, field for field, to the member k moves back
\* (all of them: to the start of the chain).
C2_UndoInverse ==
    LET n == Len(undo_stack)
        chain == undo_stack \o <<level_state>>
    IN  /\ chain[1] \in Loaded(level_state)
        /\ \A i \in 1..n : LegalMove(chain[i], chain[i + 1])
        /\ \A k \in 0..n :
              UndoN(level_state, undo_stack, k) =
                 [level_state |-> chain[n + 1 - k],
                  undo_stack  |-> SubSeq(undo_stack, 1, n - k)]

\* An undo has just popped the second of two snapshots: two moves were
\* committed, the first of them a push, and the LevelState is back at the
\* one after the push.
C2_Witness ==
    /\ in_update
    /\ ran = {"pause_game", "handle_input", "reset_state"}
    /\ "U" \in keyboard_input
    /\ ~player.is_moving
    /\ Len(undo_stack) = 1
    /\ undo_stack[1].obstacles # level_state.obstacles

----------------------------------------------------------------------------
\* C3 as stated (violated): the snapshot pushed at a commit is the
\* LevelState after the commit's mutation.
C3_SnapshotPostMutation ==
    [][ CommitStep => undo_stack'[Len(undo_stack')] = level_state' ]_vars

\* C3 (amended).  On every move commit the snapshot pushed onto the
\* UndoStack is the LevelState before the commit's mutation (the player and
\* the moved block still at their `from` tiles), the LevelState itself is
\* mutated in the same step, and the push is made whether or not the win
\* check of that commit sends a NextLevelEvent.
C3_SnapshotPreMutation ==
    [][ /\ CommitStep =>
            /\ undo_stack' = Append(undo_stack, level_state)
            /\ level_state' # level_state
            /\ level_state'.player_position = moving[player.entity].to
        /\ (MoveObjects /\ next_level_events' # next_level_events)
            => CommitStep ]_vars

\* A commit has just pushed a snapshot with the player at the `from` tile
\* while the LevelState has the player at the `to` tile, and the win check
\* of the same commit has sent its event.
C3_Witness ==
    /\ in_update
    /\ "move_objects" \in ran
    /\ commands.move_objects # <<>>
    /\ player.entity \in DOMAIN moving
    /\ undo_stack # <<>>
    /\ undo_stack[Len(undo_stack)].player_position
          = moving[player.entity].from
    /\ level_state.player_position = moving[player.entity].to
    /\ next_level_events # <<>>

----------------------------------------------------------------------------
\* C4 (single-move atomicity).  At every commit the player's Moving record
\* leads to a neighbouring tile, and after the commit exactly the moved
\* objects differ from the LevelState before it: player_position is the
\* destination; if the destination held a Block, its obstacles entry (same
\* entity, same kind) is now at the tile beyond, which was free; every other
\* obstacles entry, the goals and current_level are as before.
C4_SingleMoveAtomicity ==
    [][ CommitStep =>
          /\ player.entity \in DOMAIN moving
          /\ LET dest == moving[player.entity].to
                 mv == <<dest[1] - level_state.player_position[1],
                         dest[2] - level_state.player_position[2]>>
                 beyond == Towards(dest, mv)
                 before == level_state.obstacles
                 after == level_state'.obstacles
             IN  /\ mv \in Directions
                 /\ level_state'.player_position = dest
                 /\ level_state'.goals = level_state.goals
                 /\ level_state'.current_level = level_state.current_level
                 /\ ~IsWall(level_state, dest)
                 /\ IF IsBlock(level_state, dest)
                    THEN /\ beyond \notin DOMAIN before
                         /\ DOMAIN after =
                               ((DOMAIN before) \ {dest}) \cup {beyond}
                         /\ after[beyond] = before[dest]
                         /\ \A p \in (DOMAIN before) \ {dest} :
                               after[p] = before[p]
                    ELSE after = before ]_vars

\* A push has just been committed: the player stands where the Block was
\* and the Block is one tile further.
C4_Witness ==
    /\ in_update
    /\ "move_objects" \in ran
    /\ Len(commands.move_objects) = 2
    /\ player.entity \in DOMAIN moving
    /\ level_state.player_position = moving[player.entity].to
    /\ \E e \in (DOMAIN moving) \ {player.entity} :
          /\ moving[e].from = level_state.player_position
          /\ IsBlock(level_state, moving[e].to)
          /\ level_state.obstacles[moving[e].to][1] = e

----------------------------------------------------------------------------
\* Every goal Position of ls is a key of its obstacles.
AllGoalsCovered(ls) ==
    (DOMAIN ls.goals) \subseteq (DOMAIN ls.obstacles)

\* C5 (win condition).  A commit sends a NextLevelEvent if and only if every
\* goal Position is a key of obstacles in the LevelState after the commit;
\* it then sends exactly one, carrying current_level + 1; a commit with an
\* uncovered goal sends none, and no other step of move_objects sends one.
C5_WinCondition ==
    [][ /\ CommitStep =>
            IF AllGoalsCovered(level_state')
            THEN next_level_events' =
                    Append(next_level_events,
                           level_state'.current_level + 1)
            ELSE next_level_events' = next_level_events
        /\ (MoveObjects /\ ~CommitStep)
            => next_level_events' = next_level_events ]_vars

\* A commit has just covered the second of two goals, after an earlier
\* commit that covered the first and sent nothing, and has sent one event
\* for the next level.
C5_Witness ==
    /\ in_update
    /\ "move_objects" \in ran
    /\ "load_next_level" \notin ran
    /\ commands.move_objects # <<>>
    /\ Cardinality(DOMAIN level_state.goals) = 2
    /\ AllGoalsCovered(level_state)
    /\ \E i \in DOMAIN undo_stack :
          (DOMAIN undo_stack[i].goals) \cap (DOMAIN undo_stack[i].obstacles)
             # {}
    /\ next_level_events = <<level_state.current_level + 1>>

----------------------------------------------------------------------------
\* The level-one scenario: the LevelState level one is loaded with, and the
\* LevelStates after one and after two pushes to the left.
LevelOneLoaded == level_setup(1, level_one).level_state

LevelOneBlock == LevelOneLoaded.obstacles[<<3, 1>>]

LevelOneWith(player_position, block_position) ==
    [LevelOneLoaded EXCEPT
        !.player_position = player_position,
        !.obstacles =
            [p \in ((DOMAIN LevelOneLoaded.obstacles) \ {<<3, 1>>})
                    \cup {block_position} |->
                IF p = block_position THEN LevelOneBlock
                ELSE LevelOneLoaded.obstacles[p]]]

\* The frame's keys ask for a move to the left and for nothing that comes
\* before it in handle_input.
LeftIntent ==
    /\ "Left" \in keyboard_input
    /\ keyboard_input \cap {"U", "Up", "Down"} = {}

\* C6 (level-one scenario).  Level one is loaded with the player at (4,1),
\* a Block at (3,1) and the goal at (1,1).  A left intent is accepted there
\* and again after the first push; the commit of the first left move puts
\* the Block at (2,1) and the player at (3,1) and sends no win signal; the
\* commit of the second puts the Block on the goal at (1,1) and the player
\* at (2,1) and sends the win signal with level id 2.
C6_LevelOneScenario ==
    [][ /\ LevelOneLoaded = LevelOneWith(<<4, 1>>, <<3, 1>>)
        /\ DOMAIN LevelOneLoaded.goals = {<<1, 1>>}
        /\ LevelOneBlock[2] = "Block"
        /\ (HandleInput /\ Idle /\ LeftIntent
              /\ level_state \in {LevelOneWith(<<4, 1>>, <<3, 1>>),
                                  LevelOneWith(<<3, 1>>, <<2, 1>>)})
            => /\ player'.is_moving
               /\ Len(commands'.handle_input) = 2
        /\ (CommitStep /\ level_state = LevelOneWith(<<4, 1>>, <<3, 1>>)
              /\ moving[player.entity].to = <<3, 1>>)
            => /\ level_state' = LevelOneWith(<<3, 1>>, <<2, 1>>)
               /\ next_level_events' = <<>>
        /\ (CommitStep /\ level_state = LevelOneWith(<<3, 1>>, <<2, 1>>)
              /\ moving[player.entity].to = <<2, 1>>)
            => /\ level_state' = LevelOneWith(<<2, 1>>, <<1, 1>>)
               /\ next_level_events' = <<2>> ]_vars

\* The second left move has just been committed: the Block is on the goal,
\* the player at (2,1), the two earlier LevelStates are on the UndoStack and
\* the win signal for level 2 is sent.
C6_Witness ==
    /\ in_update
    /\ "move_objects" \in ran
    /\ level_state = LevelOneWith(<<2, 1>>, <<1, 1>>)
    /\ undo_stack = <<LevelOneWith(<<4, 1>>, <<3, 1>>),
                      LevelOneWith(<<3, 1>>, <<2, 1>>)>>
    /\ next_level_events = <<2>>

----------------------------------------------------------------------------
\* C7 (undo on an empty UndoStack).  When reset_state reads an UndoEvent and
\* the UndoStack is empty, LevelState, the UndoStack, the Player and the
\* Moving records are unchanged and the program does not panic; the event is
\* consumed, and one, two or three further undos from there leave LevelState
\* and the empty stack as they are.
C7_UndoOnEmptyStack ==
    [][ (ResetState /\ undo_events > 0 /\ undo_stack = <<>>)
        => /\ level_state' = level_state
           /\ undo_stack' = <<>>
           /\ player' = player
           /\ moving' = moving
           /\ panicked' = ""
           /\ undo_events' = undo_events - 1
           /\ \A k \in 1..3 :
                 UndoN(level_state', undo_stack', k) =
                    [level_state |-> level_state, undo_stack |-> <<>>] ]_vars

\* reset_state has just handled an undo in level two with nothing on the
\* UndoStack.
C7_Witness ==
    /\ in_update
    /\ ran = {"pause_game", "handle_input", "reset_state"}
    /\ "U" \in keyboard_input
    /\ ~player.is_moving
    /\ undo_events = 0
    /\ undo_stack = <<>>
    /\ level_state = level_setup(2, level_two).level_state

----------------------------------------------------------------------------
\* C8 (no intent while Moving).  handle_input run while is_moving is true
\* changes nothing: no Moving record is queued or altered, is_moving and the
\* timer stay, no UndoEvent is sent.  So in a frame in which the player is
\* moving, or has committed its move, reset_state finds no UndoEvent and
\* leaves the UndoStack and LevelState alone.
C8_NoIntentWhileMoving ==
    [][ /\ (HandleInput /\ player.is_moving)
            => /\ player' = player
               /\ commands' = commands
               /\ commands.handle_input = <<>>
               /\ moving' = moving
               /\ undo_events' = undo_events
               /\ level_state' = level_state
               /\ undo_stack' = undo_stack
        /\ (ResetState /\ (player.is_moving \/ commands.move_objects # <<>>))
            => /\ undo_events = 0
               /\ level_state' = level_state
               /\ undo_stack' = undo_stack ]_vars

\* An undo intent and a directional intent have arrived in a frame in which
\* a move is in flight, with a snapshot on the UndoStack: handle_input and
\* reset_state have run and have done nothing.
C8_Witness ==
    /\ in_update
    /\ ran = {"pause_game", "handle_input", "reset_state"}
    /\ player.is_moving
    /\ player.entity \in DOMAIN moving
    /\ "U" \in keyboard_input
    /\ keyboard_input \cap DirectionKeys # {}
    /\ undo_stack # <<>>
    /\ undo_events = 0
    /\ commands.handle_input = <<>>

----------------------------------------------------------------------------
\* A move is in flight / a move has been committed in this frame.
MoveInFlight == player.exists /\ player.is_moving

Committed == commands.move_objects # <<>>

\* This step clears is_moving.
ClearsIsMoving == player.is_moving /\ ~player'.is_moving

\* This step removes a Moving record that no commit of this frame has
\* queued for removal.
DropsMoving ==
    \E e \in DOMAIN moving :
        /\ e \notin DOMAIN moving'
        /\ ~(ApplyDeferred
             /\ \E i \in DOMAIN commands.move_objects :
                   commands.move_objects[i] = RemoveMoving(e))

\* A frame of the Playing state is under way.
PlayingTick == game_state = "Playing" /\ in_update

\* C9 (no mid-move cancellation).  In a run in which the Playing state keeps
\* being ticked, a pending move, once created, is committed, and no step
\* clears is_moving or removes a Moving record except the commit and the
\* removal it has queued.  The Playing state stops being ticked for good
\* when the game enters Editing (nothing leaves that state): only the step
\* into Editing drops the records of a move in flight without a commit.
C9_NoMidMoveCancellation ==
    /\ [][ game_state = "Editing" => game_state' = "Editing" ]_vars
    /\ [][ game_state' # "Editing"
             => /\ ClearsIsMoving => CommitStep
                /\ ~DropsMoving ]_vars
    /\ ([]<>PlayingTick) => (MoveInFlight ~> Committed)

\* A move in flight, its Moving records attached, sits through a frame of
\* the Paused state with its timer part-way.
C9_Witness ==
    /\ game_state = "Paused"
    /\ in_update
    /\ MoveInFlight
    /\ player.entity \in DOMAIN moving
    /\ player.move_timer.elapsed > 0

----------------------------------------------------------------------------
\* C10 (commit exactly once per move).  is_moving is set only by
\* handle_input, on a player that is Idle with the timer reset and no Moving
\* record left over, and cleared (the player still there) only by a commit;
\* a commit pushes one snapshot, applies the `to` position of the move's
\* records and resets the timer; a tick of move_objects that does not commit
\* only advances the timer (not at all in a frame that took no time), below
\* the duration.  So accepted moves and
\* commits alternate, and every move starts from a timer at zero.
C10_CommitOnce ==
    [][ /\ CommitStep
            => /\ player.is_moving
               /\ ~player'.is_moving
               /\ player'.move_timer = TimerReset
               /\ player.entity \in DOMAIN moving
               /\ level_state.player_position = moving[player.entity].from
               /\ level_state'.player_position = moving[player.entity].to
        /\ (MoveObjects /\ ~CommitStep)
            => /\ level_state' = level_state
               /\ undo_stack' = undo_stack
               /\ player'.is_moving = player.is_moving
               /\ player.is_moving
                    => /\ player'.move_timer.elapsed
                             >= player.move_timer.elapsed
                       /\ player'.move_timer.elapsed < MoveDuration
                       /\ ~player'.move_timer.finished
        /\ (ClearsIsMoving /\ player'.exists) => CommitStep
        /\ (~player.is_moving /\ player'.is_moving)
            => /\ HandleInput
               /\ player.move_timer = TimerReset
               /\ moving = EmptyMap ]_vars

\* The second move of a level has just been committed after a frame as long
\* as the engine allows: two snapshots, the timer back at zero.
C10_Witness ==
    /\ in_update
    /\ "move_objects" \in ran
    /\ Committed
    /\ Len(undo_stack) = 2
    /\ ~player.is_moving
    /\ player.move_timer = TimerReset
    /\ level_state.player_position = moving[player.entity].to

----------------------------------------------------------------------------
\* C11 (the player is never on an obstacle).  In every reachable state the
\* player_position of LevelState is not a key of its obstacles, and the same
\* holds of every snapshot on the UndoStack (the LevelStates an undo
\* restores).
C11_PlayerNotOnObstacle ==
    /\ ~contains_key(level_state.obstacles, level_state.player_position)
    /\ \A i \in DOMAIN undo_stack :
          ~contains_key(undo_stack[i].obstacles,
                        undo_stack[i].player_position)

\* A push has just been committed: the player stands on the tile that held
\* the Block in the snapshot before, and the Block is no longer there.
C11_Witness ==
    /\ in_update
    /\ "move_objects" \in ran
    /\ Committed
    /\ undo_stack # <<>>
    /\ IsBlock(undo_stack[Len(undo_stack)], level_state.player_position)
    /\ ~Occupied(level_state, level_state.player_position)

----------------------------------------------------------------------------
\* The frame's keys hold the undo key and an arrow.
UndoAndDirection ==
    "U" \in keyboard_input /\ keyboard_input \cap DirectionKeys # {}

\* C12 (undo wins over a direction).  When handle_input finds the player
\* Idle and the frame's keys hold both the undo key and an arrow, it sends
\* one UndoEvent, queues no Moving record and leaves is_moving false; and in
\* the rest of that frame (a frame whose handle_input has run with these
\* keys, the player not moving and no move committed in it) is_moving stays
\* false and no Moving record is attached.
C12_UndoWins ==
    [][ /\ (HandleInput /\ Idle /\ UndoAndDirection)
            => /\ undo_events' = undo_events + 1
               /\ commands'.handle_input = <<>>
               /\ ~player'.is_moving
               /\ moving' = moving
               /\ level_state' = level_state
        /\ (in_update /\ "handle_input" \in ran /\ UndoAndDirection
              /\ ~player.is_moving /\ ~Committed)
            => /\ ~player'.is_moving
               /\ moving' = EmptyMap ]_vars

\* handle_input has just run on an Idle player with the undo key and an
\* arrow that leads onto a free tile: the UndoEvent is sent and no move is
\* under way.
C12_Witness ==
    /\ JustHandledInput
    /\ UndoAndDirection
    /\ player.exists
    /\ ~Illegal(level_state, movement(keyboard_input))
    /\ undo_events = 1
    /\ ~player.is_moving
    /\ commands.handle_input = <<>>
    /\ moving = EmptyMap

----------------------------------------------------------------------------
\* C13 (an unknown level id is fatal).  When load_next_level reads a
\* NextLevelEvent whose id has no registered layout it panics with "Level
\* not found": by then it has queued the despawn of every entity and
\* nothing else, no level_setup; LevelState, the UndoStack and the player
\* stay as they are, and the program takes no step after a panic, so the
\* queue is never applied.
\* The commit that completes the last registered level sends such an id.
C13_UnknownLevelIsFatal ==
    [][ /\ panicked = ""
        /\ (LoadNextLevel /\ next_level_events # <<>>
              /\ Head(next_level_events) \notin Registered)
            => /\ panicked' = "Level not found"
               /\ commands' = [commands EXCEPT
                                  !.load_next_level = <<DespawnAll>>]
               /\ level_state' = level_state
               /\ undo_stack' = undo_stack
               /\ player' = player
        /\ (CommitStep /\ AllGoalsCovered(level_state')
              /\ \A id \in Registered : id <= level_state.current_level)
            => /\ next_level_events' # <<>>
               /\ Head(next_level_events') \notin Registered ]_vars

\* The last registered level has been completed and load_next_level has
\* panicked on the id after it: the LevelState is still the completed one
\* and only the despawns are queued.
C13_Witness ==
    /\ panicked = "Level not found"
    /\ in_update
    /\ level_state.current_level = 4
    /\ AllGoalsCovered(level_state)
    /\ undo_stack # <<>>
    /\ commands.load_next_level = <<DespawnAll>>

----------------------------------------------------------------------------
\* The code of the layout at column x of row y (both from 0), or "none"
\* outside the layout.
CodeOf(level_layout, x, y) ==
    IF y + 1 \in DOMAIN level_layout /\ x + 1 \in DOMAIN level_layout[y + 1]
    THEN level_layout[y + 1][x + 1] ELSE "none"

\* The layout has a cell with code 1.
HasPlayerCell(level_layout) ==
    \E y \in 0..(Len(level_layout) - 1) :
        \E x \in 0..(Len(level_layout[y + 1]) - 1) :
            level_layout[y + 1][x + 1] = 1

\* The Positions a loaded LevelState mentions.
Mentioned(ls) ==
    (DOMAIN ls.obstacles) \cup (DOMAIN ls.goals) \cup {ls.player_position}

\* C14 (codes to state, by position).  When level_setup loads a layout that
\* has a player cell, the LevelState it produces has the given level id as
\* current_level, and for every column x and row y: obstacles has a Block at
\* (x, y) exactly when the code there is 2 and a Wall exactly when it is 8,
\* goals has (x, y) exactly when the code is 4, player_position is a cell
\* whose code is 1 (the last one in reading order), and a cell with code 0
\* or any other code, or a Position outside the layout, has no entry.
C14_CodesToState ==
    [][ (LevelSetup /\ HasPlayerCell(level_setup_args.level_layout))
        => LET layout == level_setup_args.level_layout
               after == level_state'
           IN  /\ panicked' = ""
               /\ after.current_level = level_setup_args.level
               /\ undo_stack' = <<>>
               /\ \A p \in Mentioned(after) :
                     CodeOf(layout, p[1], p[2]) \in {1, 2, 4, 8}
               /\ \A y \in 0..(Len(layout) - 1) :
                    \A x \in 0..(Len(layout[y + 1]) - 1) :
                      LET code == layout[y + 1][x + 1]
                      IN  /\ IsBlock(after, <<x, y>>) <=> code = 2
                          /\ IsWall(after, <<x, y>>) <=> code = 8
                          /\ <<x, y>> \in DOMAIN after.goals <=> code = 4
                          /\ <<x, y>> = after.player_position => code = 1
                          /\ (code = 1 /\ <<x, y>> # after.player_position)
                              => \/ y < after.player_position[2]
                                 \/ /\ y = after.player_position[2]
                                    /\ x < after.player_position[1] ]_vars

\* A layout of two rows with a Block, the player, a Wall and a goal has been
\* loaded as level 2: the Block at (0,0), the player at (1,0), the Wall at
\* (0,1), the goal at (1,1).
C14_Witness ==
    /\ game_state = "Startup"
    /\ next_state = "Playing"
    /\ player.exists
    /\ level_state.current_level = 2
    /\ level_state.player_position = <<1, 0>>
    /\ DOMAIN level_state.obstacles = {<<0, 0>>, <<0, 1>>}
    /\ level_state.obstacles[<<0, 0>>][2] = "Block"
    /\ level_state.obstacles[<<0, 1>>][2] = "Wall"
    /\ DOMAIN level_state.goals = {<<1, 1>>}

----------------------------------------------------------------------------
\* C15 (a layout without a player is fatal).  When level_setup is called
\* with a layout that has no cell with code 1 it panics: LevelState and the
\* UndoStack stay the resources they were, no Player exists, the Playing
\* state is not asked for, and the program takes no step after the panic.
C15_NoPlayerIsFatal ==
    [][ /\ panicked = ""
        /\ (LevelSetup /\ ~HasPlayerCell(level_setup_args.level_layout))
            => /\ panicked' # ""
               /\ level_state' = level_state
               /\ undo_stack' = undo_stack
               /\ player' = NoPlayer
               /\ next_state' = "None" ]_vars

\* level_setup has panicked on a layout of two rows with a Block, a goal and
\* a Wall but no player: LevelState is still the default resource.
C15_Witness ==
    /\ panicked # ""
    /\ game_state = "Startup"
    /\ Len(level_setup_args.level_layout) = 2
    /\ level_setup_args.level_layout[1] = <<2, 4>>
    /\ level_setup_args.level_layout[2] = <<8, 0>>
    /\ level_state = LevelStateDefault
    /\ ~player.exists

----------------------------------------------------------------------------
\* The Moving records attached are those of one resolved move: none, or one
\* on the player and at most one more, on a Block that leaves the tile the
\* player enters, both one tile in the same direction.
OneResolvedMove ==
    \/ moving = EmptyMap
    \/ /\ player.exists
       /\ player.entity \in DOMAIN moving
       /\ Cardinality(DOMAIN moving) <= 2
       /\ LET pm == moving[player.entity]
              mv == <<pm.to[1] - pm.from[1], pm.to[2] - pm.from[2]>>
          IN  /\ mv \in Directions
              /\ \A e \in (DOMAIN moving) \ {player.entity} :
                    /\ moving[e].from = pm.to
                    /\ moving[e].to = Towards(pm.to, mv)

\* handle_input reads a direction (and no undo) on an Idle player.
DirectionIntent ==
    /\ HandleInput
    /\ Idle
    /\ "U" \notin keyboard_input
    /\ movement(keyboard_input) # None

\* C16 (accepted push).  When handle_input resolves a direction whose
\* destination holds a Block with no obstacle on the tile beyond, it sets
\* is_moving and queues a Moving record for that Block (from the
\* destination to the tile beyond) and one for the player (from
\* player_position to the destination), and nothing else; when the
\* destination holds no obstacle it sets is_moving and queues the player's
\* record only.  The queued records are attached, as queued, when the
\* frame's commands are applied, and the records attached at any time are
\* those of one resolved move: the player's and at most one Block's.
C16_AcceptedPush ==
    [][ LET mv == movement(keyboard_input)
            dest == Towards(level_state.player_position, mv)
            beyond == Towards(dest, mv)
            player_record ==
                InsertMoving(player.entity, level_state.player_position, dest)
        IN  /\ (DirectionIntent /\ IsBlock(level_state, dest)
                  /\ ~Occupied(level_state, beyond))
                => /\ player'.is_moving
                   /\ commands'.handle_input =
                         <<InsertMoving(level_state.obstacles[dest][1],
                                        dest, beyond),
                           player_record>>
            /\ (DirectionIntent /\ ~Occupied(level_state, dest))
                => /\ player'.is_moving
                   /\ commands'.handle_input = <<player_record>>
            /\ (ApplyDeferred /\ commands.handle_input # <<>>)
                => /\ DOMAIN moving' =
                         { commands.handle_input[i].entity :
                              i \in DOMAIN commands.handle_input }
                   /\ \A i \in DOMAIN commands.handle_input :
                         LET c == commands.handle_input[i]
                         IN  moving'[c.entity] = [from |-> c.from, to |-> c.to]
            /\ OneResolvedMove' ]_vars

\* The records of an accepted push are attached: the player's and the
\* Block's, the Block still on the destination tile of the player and the
\* tile beyond it free.
C16_Witness ==
    /\ ~in_update
    /\ player.is_moving
    /\ Cardinality(DOMAIN moving) = 2
    /\ moving[player.entity].from = level_state.player_position
    /\ \E e \in (DOMAIN moving) \ {player.entity} :
          /\ moving[e].from = moving[player.entity].to
          /\ IsBlock(level_state, moving[e].from)
          /\ level_state.obstacles[moving[e].from][1] = e
          /\ ~Occupied(level_state, moving[e].to)

----------------------------------------------------------------------------
\* This step is an undo that finds an UndoEvent / the application of a
\* level_setup queued by load_next_level.
UndoStep == ResetState /\ undo_events > 0

LevelLoadStep == ApplyDeferred /\ commands.load_next_level # <<>>

\* While the records of a move are attached LevelState has the values from
\* before the move: the player at the `from` tile of its record, a pushed
\* Block at the `from` tile of its own.
PreMoveValues ==
    (player.is_moving /\ player.entity \in DOMAIN moving)
    => /\ level_state.player_position = moving[player.entity].from
       /\ \A e \in (DOMAIN moving) \ {player.entity} :
             /\ IsBlock(level_state, moving[e].from)
             /\ level_state.obstacles[moving[e].from][1] = e
             /\ ~Occupied(level_state, moving[e].to)

\* C17 (resolution does not mutate LevelState).  handle_input leaves
\* LevelState and the UndoStack as they are; while a move is in flight no
\* step but its commit changes LevelState, which keeps the pre-move
\* player_position and obstacles; and LevelState changes only in a commit
\* of move_objects, an undo of reset_state or a level load.
C17_ResolutionDoesNotMutate ==
    [][ /\ HandleInput
            => /\ level_state' = level_state
               /\ undo_stack' = undo_stack
        /\ (player.is_moving /\ ~CommitStep) => level_state' = level_state
        /\ PreMoveValues'
        /\ level_state' # level_state
            => CommitStep \/ UndoStep \/ LevelLoadStep ]_vars

\* A push is in flight, its records attached and its timer part-way after a
\* tick of move_objects: the player and the Block are still on their `from`
\* tiles in LevelState.
C17_Witness ==
    /\ in_update
    /\ "move_objects" \in ran
    /\ player.is_moving
    /\ player.move_timer.elapsed > 0
    /\ Cardinality(DOMAIN moving) = 2
    /\ player.entity \in DOMAIN moving
    /\ level_state.player_position = moving[player.entity].from
    /\ IsBlock(level_state, moving[player.entity].to)

----------------------------------------------------------------------------
\* A frame in which handle_input has found the player Idle and the undo key
\* pressed: the frame of an undo.
UndoFrame ==
    /\ in_update
    /\ "handle_input" \in ran
    /\ "U" \in keyboard_input
    /\ ~player.is_moving
    /\ ~Committed

\* C18 (a successful undo pops one snapshot and pushes none).  When
\* reset_state reads an UndoEvent and the UndoStack is not empty, the stack
\* loses its newest snapshot and nothing else, LevelState becomes that
\* snapshot, and the player, the Moving records, the queued commands and
\* the NextLevelEvents are untouched.  No other step of the frame of an
\* undo changes LevelState or the UndoStack, sends a NextLevelEvent or
\* queues a level load.
C18_UndoPopsOne ==
    [][ /\ (UndoStep /\ undo_stack # <<>>)
            => /\ Len(undo_stack') = Len(undo_stack) - 1
               /\ undo_stack' = SubSeq(undo_stack, 1, Len(undo_stack) - 1)
               /\ level_state' = undo_stack[Len(undo_stack)]
               /\ undo_events' = undo_events - 1
               /\ next_level_events' = next_level_events
               /\ UNCHANGED <<player, moving, commands, panicked>>
        /\ UndoFrame
            => /\ next_level_events = <<>>
               /\ next_level_events' = <<>>
               /\ commands'.load_next_level = <<>>
               /\ ~UndoStep
                    => /\ level_state' = level_state
                       /\ undo_stack' = undo_stack ]_vars

\* The third of three committed moves has just been undone and every system
\* of the frame has run: two snapshots are left, LevelState is one legal
\* move after the newer of them, and no NextLevelEvent was sent.
C18_Witness ==
    /\ UndoFrame
    /\ ran = PlayingSystems
    /\ undo_events = 0
    /\ Len(undo_stack) = 2
    /\ LegalMove(undo_stack[2], level_state)
    /\ next_level_events = <<>>

----------------------------------------------------------------------------
\* The entities a LevelState names.
Entities(ls) ==
    { ls.obstacles[p][1] : p \in DOMAIN ls.obstacles }
        \cup { ls.goals[p] : p \in DOMAIN ls.goals }

\* C19 (a level transition discards the old state).  load_next_level queues
\* a despawn of everything and a level_setup for the id of the event it
\* reads, which is current_level + 1.  When these commands are applied
\* LevelState is the state level_setup builds from the layout of that id,
\* with current_level the id; the UndoStack is empty, whatever it held; no
\* Moving record is left and the new player is Idle with its timer at zero;
\* no entity of the old LevelState or of its snapshots is named by the new
\* one; and one, two or three undos from there change nothing.
C19_TransitionDiscardsOldState ==
    [][ /\ (LoadNextLevel /\ next_level_events # <<>>
              /\ Head(next_level_events) \in Registered)
            => /\ Head(next_level_events) = level_state.current_level + 1
               /\ Len(commands'.load_next_level) = 2
               /\ commands'.load_next_level[1] = DespawnAll
               /\ commands'.load_next_level[2].op = "level_setup"
               /\ commands'.load_next_level[2].level = Head(next_level_events)
        /\ LevelLoadStep
            => /\ level_state'.current_level = level_state.current_level + 1
               /\ level_state' \in Loaded(level_state')
               /\ undo_stack # <<>>
               /\ undo_stack' = <<>>
               /\ moving # EmptyMap
               /\ moving' = EmptyMap
               /\ player'.exists
               /\ ~player'.is_moving
               /\ player'.move_timer = TimerReset
               /\ player'.entity # player.entity
               /\ Entities(level_state') \cap Entities(level_state) = {}
               /\ \A i \in DOMAIN undo_stack :
                     Entities(level_state') \cap Entities(undo_stack[i]) = {}
               /\ \A k \in 1..3 :
                     UndoN(level_state', undo_stack', k) =
                        [level_state |-> level_state', undo_stack |-> <<>>]
    ]_vars

\* Level one has been completed and level two loaded, and an undo is asked
\* for in the first frame after: reset_state has run and LevelState is the
\* loaded level two, the UndoStack empty.
C19_Witness ==
    /\ in_update
    /\ "reset_state" \in ran
    /\ "U" \in keyboard_input
    /\ undo_events = 0
    /\ level_state = level_setup(2, level_two).level_state
    /\ undo_stack = <<>>
    /\ player.exists
    /\ ~player.is_moving
    /\ moving = EmptyMap

----------------------------------------------------------------------------
\* The commands a stage has queued in this frame are applied: every Moving
\* record it asked to insert is attached, every one it asked to remove is
\* gone.
Settled(cmds) ==
    \A i \in DOMAIN cmds :
        LET c == cmds[i]
        IN  /\ c.op = "insert"
                => /\ c.entity \in DOMAIN moving
                   /\ moving[c.entity] = [from |-> c.from, to |-> c.to]
            /\ c.op = "remove" => c.entity \notin DOMAIN moving

\* C20 (stage order and settled output; violated).  In every frame the
\* stages run in the order handle_input, then reset_state and move_objects,
\* then load_next_level, and each stage observes the settled output of the
\* stages before it: when reset_state or move_objects runs the Moving
\* records queued by handle_input are attached, and when load_next_level
\* runs the records removed by move_objects are gone.
C20_StagesObserveSettledOutput ==
    [][ /\ (ResetState \/ MoveObjects)
            => /\ "handle_input" \in ran
               /\ "load_next_level" \notin ran
               /\ Settled(commands.handle_input)
        /\ LoadNextLevel
            => /\ {"handle_input", "reset_state", "move_objects"} \subseteq ran
               /\ Settled(commands.handle_input)
               /\ Settled(commands.move_objects) ]_vars

----------------------------------------------------------------------------
\* The Position lies within the layout matrix.
InLayout(level_layout, p) ==
    /\ p[2] + 1 \in DOMAIN level_layout
    /\ p[1] + 1 \in DOMAIN level_layout[p[2] + 1]

Neighbours(p) == { Towards(p, d) : d \in Directions }

\* The Positions the player or a pushed Block could come to from `seen`:
\* the tiles next to a tile of the layout that are not a Wall of the
\* layout, Positions outside the layout among them; nothing is reached
\* from outside the layout.
RECURSIVE Spread(_, _)
Spread(level_layout, seen) ==
    LET more == { q \in UNION { Neighbours(p) :
                                  p \in { s \in seen :
                                            InLayout(level_layout, s) } } :
                    \/ ~InLayout(level_layout, q)
                    \/ level_layout[q[2] + 1][q[1] + 1] # 8 } \ seen
    IN  IF more = {} THEN seen ELSE Spread(level_layout, seen \cup more)

\* The Walls of the layout close the floor the player starts on: no
\* Position outside the layout can be come to.
Enclosed(level_layout) ==
    LET start == level_setup(0, level_layout).level_state.player_position
    IN  \A p \in Spread(level_layout, {start}) : InLayout(level_layout, p)

\* The levels whose layouts are in the source.
SourceLevels == {1, 2, 3}

\* C21 (bounds).  In every reachable state of level one, two or three every
\* key of obstacles and every goal Position lies within the layout matrix
\* of the level, in LevelState and in every snapshot of the UndoStack; and
\* the Walls of each of these layouts enclose the floor the player starts
\* on, so that no number of moves takes a Block outside.
C21_WithinLayoutBounds ==
    level_state.current_level \in SourceLevels
    => \A level_layout \in LevelLayout(level_state.current_level) :
          /\ \A p \in (DOMAIN level_state.obstacles)
                         \cup (DOMAIN level_state.goals) :
                InLayout(level_layout, p)
          /\ \A i \in DOMAIN undo_stack :
                \A p \in (DOMAIN undo_stack[i].obstacles)
                            \cup (DOMAIN undo_stack[i].goals) :
                   InLayout(level_layout, p)
          /\ (undo_stack = <<>> /\ ~in_update) => Enclosed(level_layout)

\* In level two a Block has been pushed down once, to the row above the
\* bottom Wall, and a second push down has just been rejected: the Block is
\* still inside the layout.
C21_Witness ==
    /\ JustHandledInput
    /\ level_state.current_level = 2
    /\ keyboard_input = {"Down"}
    /\ level_state.player_position = <<6, 2>>
    /\ IsBlock(level_state, <<6, 3>>)
    /\ IsWall(level_state, <<6, 4>>)
    /\ Len(undo_stack) = 1
    /\ ~player.is_moving
    /\ commands.handle_input = <<>>

\* The scan has ended: no Position is left to be visited.
Finished == scan.active /\ scan.to_visit = <<>>

\* The Positions that can be come to from `seen` over traversable
\* neighbors, taken a whole layer at a time.
RECURSIVE Flood(_, _)
Flood(obstacles, seen) ==
    LET more == { q \in UNION { Neighbours(p) : p \in seen } :
                    traversable(obstacles, q) } \ seen
    IN  IF more = {} THEN seen ELSE Flood(obstacles, seen \cup more)

\* The Position the scan started at.
ScanStart ==
    level_setup(level_setup_args.level,
                level_setup_args.level_layout).level_state.player_position

\* Whatever the order of the visits, a scan that has ended has visited
\* the same set of Positions: the Positions connected to the start.
ScanOrderIndependent ==
    Finished => scan.visited = Flood(PlacedObstacles, {ScanStart})

\* A scan visits tiles of its layout only, none of them a Wall.
ScanWithinLayout ==
    \A p \in scan.visited :
        /\ InLayout(level_setup_args.level_layout, p)
        /\ ~(contains_key(PlacedObstacles, p)
               /\ PlacedObstacles[p][2] = "Wall")

\* C22 (Connectivity Scan determinism).  For each layout of the source the
\* set of Positions the flood fill reaches from the player's start (Walls
\* block, Blocks and empty tiles do not) is the same whatever the order in
\* which the neighbors are visited, breadth-first or depth-first, and the
\* scan terminates.
C22_ScanDeterministic ==
    /\ [] ScanOrderIndependent
    /\ [] ScanWithinLayout
    /\ <> Finished

\* A depth-first scan of level three that looks left first has ended: it
\* has visited the fifty tiles of the room, those of the Blocks among
\* them, and neither a Wall nor the corner tiles outside the Walls.
C22_Witness ==
    /\ Finished
    /\ level_setup_args.level_layout = level_three
    /\ scan.discipline = "depth"
    /\ scan.order[1] = <<-1, 0>>
    /\ {<<1, 2>>, <<2, 2>>, <<9, 4>>, <<1, 5>>} \subseteq scan.visited
    /\ <<0, 0>> \notin scan.visited
    /\ Cardinality(scan.visited) = 50

\* The state between two ticks: the commands of the frame are applied.
TickBoundary == ~in_update /\ panicked = ""

\* The Moving records agree with is_moving: the player carries a record
\* exactly when it is moving, and no other entity carries one unless it is.
RecordsMatchIsMoving ==
    /\ player.is_moving <=> (player.exists /\ player.entity \in DOMAIN moving)
    /\ \A entity \in DOMAIN moving : player.is_moving

\* C23 (Moving records and is_moving).  At every tick boundary is_moving is
\* true exactly when the player entity carries a Moving record, and a
\* Block carries one only while is_moving is true; and move_objects never
\* commits a move whose records are not attached yet, whatever time the
\* tick took.
C23_RecordsFollowIsMoving ==
    /\ [](TickBoundary => RecordsMatchIsMoving)
    /\ [][(MoveObjects /\ ClearsIsMoving)
              => /\ player.entity \in DOMAIN moving
                 /\ commands.handle_input = <<>>]_vars

\* A push has been accepted in a frame that took longer than the move
\* lasts: at the end of the frame the timer stands at the cap of time.delta()
\* and the player and the Block carry their records.
C23_Witness ==
    /\ TickBoundary
    /\ player.is_moving
    /\ player.move_timer = [elapsed |-> MaxDelta, finished |-> FALSE]
    /\ player.entity \in DOMAIN moving
    /\ Cardinality(DOMAIN moving) = 2
    /\ moving[player.entity].from = level_state.player_position

\* What reset_state and move_objects read and write.
Shared ==
    [level_state |-> level_state, undo_stack |-> undo_stack,
     player |-> player, undo_events |-> undo_events,
     cmds |-> commands.move_objects, events |-> next_level_events]

\* The effect of the system reset_state on w.
AfterResetState(w) ==
    IF w.undo_events = 0 THEN w
    ELSE LET r == reset_state(w.level_state, w.undo_stack)
         IN  [w EXCEPT !.undo_events = @ - 1,
                       !.level_state = r.level_state,
                       !.undo_stack = r.undo_stack]

\* The effect of the system move_objects on w in a frame that took `raw`.
AfterMoveObjects(w, raw, order) ==
    IF ~w.player.exists \/ ~w.player.is_moving THEN w
    ELSE LET r == move_objects(w.level_state, w.undo_stack, w.player,
                               moving, delta(raw), order)
         IN  [w EXCEPT !.player = r.player,
                       !.level_state = r.level_state,
                       !.undo_stack = r.undo_stack,
                       !.cmds = r.cmds,
                       !.events = @ \o r.events]

\* handle_input has run and neither reset_state nor move_objects has.
BothToRun ==
    /\ PlayingTick
    /\ panicked = ""
    /\ "handle_input" \in ran
    /\ ran \cap {"reset_state", "move_objects"} = {}

\* C24 (reset_state and move_objects commute).  The two systems are
\* ordered only after handle_input; whichever runs first the outcome is the
\* same; and in no tick do both an undo and a commit or an advance of the
\* timer take effect: when reset_state reads an undo request the player is
\* not moving and no move was committed in the tick.
C24_UndoAndMoveExclusive ==
    /\ [](BothToRun
            => \A raw \in 0..MaxRawDelta, order \in Orders(DOMAIN moving) :
                  AfterMoveObjects(AfterResetState(Shared), raw, order)
                  = AfterResetState(AfterMoveObjects(Shared, raw, order)))
    /\ [][(ResetState /\ undo_events > 0)
              => (~player.is_moving /\ ~Committed)]_vars

\* An undo was requested after a move, move_objects has run first, and
\* reset_state is about to restore the snapshot.
C24_Witness ==
    /\ PlayingTick
    /\ ran = {"pause_game", "handle_input", "move_objects"}
    /\ undo_events = 1
    /\ Len(undo_stack) >= 1
    /\ undo_stack[Len(undo_stack)] # level_state
    /\ "U" \in keyboard_input

\* The (entity, kind) values of the obstacles of ls.
ObstacleValues(ls) == { ls.obstacles[p] : p \in DOMAIN ls.obstacles }

\* ls has the obstacles of the loaded state `loaded`: as many entries, the
\* same (entity, kind) values, and every Wall at its loaded Position.
Conserved(loaded, ls) ==
    /\ Cardinality(DOMAIN ls.obstacles)
         = Cardinality(DOMAIN loaded.obstacles)
    /\ ObstacleValues(ls) = ObstacleValues(loaded)
    /\ \A p \in DOMAIN loaded.obstacles :
          loaded.obstacles[p][2] = "Wall"
          => /\ p \in DOMAIN ls.obstacles
             /\ ls.obstacles[p] = loaded.obstacles[p]

\* C25 (obstacles are conserved).  Within a level, after any moves and
\* undos, LevelState and every snapshot have as many obstacles entries as
\* the level was loaded with, the same (entity, kind) values, and every
\* Wall at its loaded Position; and when a move is committed the Block it
\* moves is an entry at `from` and no entry is at `to`.
C25_ObstaclesConserved ==
    /\ [](\E loaded \in Loaded(level_state) :
             /\ Conserved(loaded, level_state)
             /\ \A i \in DOMAIN undo_stack :
                   Conserved(loaded, undo_stack[i]))
    /\ [][CommitStep
            => \A entity \in DOMAIN moving :
                  entity # player.entity
                  => /\ contains_key(level_state.obstacles,
                                      moving[entity].from)
                     /\ ~contains_key(level_state.obstacles,
                                       moving[entity].to)
                     /\ level_state'.obstacles[moving[entity].to]
                          = level_state.obstacles[moving[entity].from]]_vars

\* Level two after pushes, or after more moves and the undos that take
\* them back: a Block stands away from its loaded Position, the snapshot
\* on top of the stack has other obstacles, and the player is Idle.
C25_Witness ==
    /\ TickBoundary
    /\ Idle
    /\ level_state.current_level = 2
    /\ Len(undo_stack) >= 1
    /\ \E p \in DOMAIN level_state.obstacles :
          /\ level_state.obstacles[p][2] = "Block"
          /\ p \notin DOMAIN level_setup(2, level_two).level_state.obstacles
    /\ undo_stack[Len(undo_stack)].obstacles # level_state.obstacles

\* C26 (no goals, won at once).  In a LevelState whose goals map is empty
\* every committed move, a push or a plain step, sends
\* NextLevelEvent(current_level + 1); it is the first move of the level,
\* since the level is left in the tick of the commit.
C26_NoGoalsWinAtOnce ==
    [][(CommitStep /\ DOMAIN level_state.goals = {})
          => /\ undo_stack = <<>>
             /\ DOMAIN level_state'.goals = {}
             /\ next_level_events'
                  = Append(next_level_events,
                           level_state.current_level + 1)]_vars

\* A level without goals was loaded as level one and its first move, a
\* push, has just been committed: NextLevelEvent(2) is sent.
C26_Witness ==
    /\ PlayingTick
    /\ "move_objects" \in ran
    /\ Committed
    /\ level_state.current_level = 1
    /\ DOMAIN level_state.goals = {}
    /\ Len(undo_stack) = 1
    /\ undo_stack[1].obstacles # level_state.obstacles
    /\ next_level_events = <<2>>

\* The same after a plain step.
C26_PlainStep ==
    /\ PlayingTick
    /\ "move_objects" \in ran
    /\ Committed
    /\ level_state.current_level = 1
    /\ DOMAIN level_state.goals = {}
    /\ Len(undo_stack) = 1
    /\ undo_stack[1].obstacles = level_state.obstacles
    /\ next_level_events = <<2>>

====
